---- MODULE Spec2Model ----
(***************************************************************************)
(* A model of PyExifTool (exiftool.py): the ExifTool session that owns one *)
(* `exiftool -stay_open` subprocess, the sentinel-framed request/response  *)
(* protocol over its pipes, and the FileMetadata / MultiFileMetadata views.*)
(* Python 3 semantics are modelled (BrokenPipeError on a closed pipe, a    *)
(* bare `raise` outside a handler raising RuntimeError).                   *)
(*                                                                         *)
(* Bytes are one-character strings, byte strings are sequences of them.    *)
(* A JSON object written by the tool is one symbol of the byte stream      *)
(* (see JsonObject), everything else is byte for byte.                     *)
(***************************************************************************)
EXTENDS Integers, Sequences, FiniteSets, TLC

VARIABLES running, _process, procs, depth, view, pc, ret, threads

vars == <<running, _process, procs, depth, view, pc, ret, threads>>

----------------------------------------------------------------------------
(* Bounds of the model. *)

\* Subprocesses spawned in one behaviour.
MaxProcs == 2
\* Open `with session:` blocks, one inside the other.
MaxDepth == 2
\* Bytes a read of the response may find in the pipe before the rest arrives.
MaxReady == 16
\* Unread bytes of earlier responses with which a further batch is still sent.
MaxPending == 1
\* Bytes at the end of a response that a subprocess may fail to write.
MaxMissing == 2
\* Elements a consumer takes from an iteration before it abandons it.
MaxTaken == 2

----------------------------------------------------------------------------
(* Module-level constants of exiftool.py. *)

sentinel == <<"{", "r", "e", "a", "d", "y", "}">>

block_size == 4096

\* The 32 of `output[-32:]` in ExifTool.execute.
tail_window == 32

\* The bytes bytes.strip() removes.
Whitespace == {" ", "\t", "\n", "\r", "\f"}

Min(a, b) == IF a < b THEN a ELSE b

Max(a, b) == IF a > b THEN a ELSE b

----------------------------------------------------------------------------
(* Byte-string primitives used by ExifTool.execute. *)

RECURSIVE lstrip(_)
lstrip(b) ==
    IF b # <<>> /\ Head(b) \in Whitespace THEN lstrip(Tail(b)) ELSE b

RECURSIVE rstrip(_)
rstrip(b) ==
    IF b # <<>> /\ b[Len(b)] \in Whitespace
    THEN rstrip(SubSeq(b, 1, Len(b) - 1))
    ELSE b

\* bytes.strip()
strip(b) == rstrip(lstrip(b))

\* bytes.endswith(suffix)
endswith(b, suffix) ==
    /\ Len(b) >= Len(suffix)
    /\ SubSeq(b, Len(b) - Len(suffix) + 1, Len(b)) = suffix

\* b[-n:]
LastBytes(b, n) == SubSeq(b, Max(1, Len(b) - n + 1), Len(b))

\* b[:-n], n > 0
DropLast(b, n) == SubSeq(b, 1, Len(b) - n)

\* sep.join(items)
RECURSIVE join(_, _)
join(sep, items) ==
    IF items = <<>> THEN <<>>
    ELSE IF Len(items) = 1 THEN <<items[1]>>
    ELSE <<items[1], sep>> \o join(sep, Tail(items))

\* The loop condition of execute: the tail of the accumulator, trimmed, ends
\* with the sentinel.
SentinelSeen(output) ==
    endswith(strip(LastBytes(output, tail_window)), sentinel)

\* os.read(fd, block_size) when `ready` bytes have arrived so far: at least
\* one byte, at most block_size, never more than there is.
os_read(pipe, ready) == Min(block_size, Min(Max(1, ready), Len(pipe)))

\* The read loop of execute. `pipe` holds the bytes the subprocess writes
\* (unread ones of earlier responses first), `avail` how many of them each
\* successive read finds; once avail is used up a read finds all of them.
\* With the pipe empty and no sentinel seen the loop never ends: the read
\* blocks while the subprocess holds the pipe open, and returns b"" again and
\* again once it has closed it.
RECURSIVE ReadLoop(_, _, _)
ReadLoop(output, pipe, avail) ==
    IF SentinelSeen(output)
    THEN [output |-> output, pipe |-> pipe, blocked |-> FALSE]
    ELSE IF pipe = <<>>
    THEN [output |-> output, pipe |-> pipe, blocked |-> TRUE]
    ELSE LET n == os_read(pipe, IF avail = <<>> THEN Len(pipe) ELSE Head(avail))
         IN  ReadLoop(output \o SubSeq(pipe, 1, n),
                      SubSeq(pipe, n + 1, Len(pipe)),
                      IF avail = <<>> THEN <<>> ELSE Tail(avail))

\* Mutant of StripSentinel: the accumulator is not trimmed before the cut.
StripSentinel_untrimmed(output) == DropLast(output, Len(sentinel))

\* `return output.strip()[:-len(sentinel)]`
StripSentinel(output) == DropLast(strip(output), Len(sentinel))

----------------------------------------------------------------------------
(* Command tokens.  A token is raw bytes or text (str); its content is one *)
(* symbol of the request stream.                                           *)

Bt(v) == [t |-> "bytes", v |-> v]

St(v) == [t |-> "str", v |-> v]

\* fsencode: bytes are returned unchanged, text is encoded to bytes.
fsencode(filename) ==
    IF filename.t = "bytes" THEN filename ELSE [t |-> "bytes", v |-> filename.v]

\* b"\n".join(params + (b"-execute\n",)): the symbols written to stdin.
\* Joining anything but bytes raises TypeError, shown as <<"TypeError">>.
Request(params) ==
    IF \E i \in 1..Len(params) : params[i].t # "bytes"
    THEN <<"TypeError">>
    ELSE join("\n", [i \in 1..Len(params) |-> params[i].v] \o <<"-execute\n">>)

\* b"-stay_open\nFalse\n"
StayOpenFalse == <<"-stay_open", "\n", "False\n">>

----------------------------------------------------------------------------
(* The file system and the exiftool subprocess, as the documentation of    *)
(* execute and execute_json describes them: the tool answers one batch     *)
(* with its output followed by the sentinel and a newline; with -j the     *)
(* output is a JSON array with one object per file, each holding           *)
(* SourceFile.                                                             *)

TitleTag == "XMP:Title"

Tags == {TitleTag}

Files == {"a.jpg", "b.png", "pics/c.tif"}

Dirs == {"pics"}

\* Paths a caller may pass: two files, a directory, a pattern no file matches.
Paths == {"a.jpg", "b.png", "pics", "*.gif"}

\* os.path.isfile
isfile(path) == path \in Files

\* The metadata record of each file.
FileRecord(f) ==
    IF f = "a.jpg" THEN ("SourceFile" :> f) @@ (TitleTag :> "T") ELSE ("SourceFile" :> f)

\* The files the tool reports for one path argument.
ExpandPath(path) ==
    IF path \in Files THEN <<path>>
    ELSE IF path \in Dirs THEN <<"pics/c.tif">>
    ELSE <<>>

\* The serialized form of each JSON object the tool can write is one symbol.
JsonSymbols == {"{a}", "{a,T}", "{b}", "{c}"}

JsonObject(sym) ==
    CASE sym = "{a}" -> ("SourceFile" :> "a.jpg")
      [] sym = "{a,T}" -> ("SourceFile" :> "a.jpg") @@ (TitleTag :> "T")
      [] sym = "{b}" -> ("SourceFile" :> "b.png")
      [] sym = "{c}" -> ("SourceFile" :> "pics/c.tif")

JsonSymbol(obj) == CHOOSE sym \in JsonSymbols : JsonObject(sym) = obj

\* The text echoed for `-echo TEXT`, byte by byte.
EchoBytes(text) ==
    CASE text = "x" -> <<"x">>
      [] text = " x " -> <<" ", "x", " ">>
      [] text = "{ready}" -> sentinel
      [] OTHER -> <<>>

EchoTexts == {"x", " x ", "{ready}"}

RECURSIVE Concat(_)
Concat(seqs) == IF seqs = <<>> THEN <<>> ELSE Head(seqs) \o Concat(Tail(seqs))

\* The arguments of a batch: the lines of the request up to -execute.
BatchArgs(request) ==
    SelectSeq(request, LAMBDA x : x \notin {"\n", "-execute\n"})

TagFlags == {"-" \o tag : tag \in Tags}

\* What -j prints for the batch: nothing when no file is found, else the array.
JsonOutput(args) ==
    LET names == SelectSeq(args, LAMBDA x : x \notin ({"-j", "-r"} \cup TagFlags))
        found == Concat([i \in 1..Len(names) |-> ExpandPath(names[i])])
        wanted == {tag \in Tags : ("-" \o tag) \in {args[i] : i \in 1..Len(args)}}
        Shown(f) ==
            LET rec == FileRecord(f)
                keep == IF wanted = {} THEN DOMAIN rec
                        ELSE {"SourceFile"} \cup (wanted \cap DOMAIN rec)
            IN  [k \in keep |-> rec[k]]
    IN  IF found = <<>> THEN <<>>
        ELSE <<"[">> \o join(",", [i \in 1..Len(found) |-> JsonSymbol(Shown(found[i]))])
                     \o <<"]", "\n">>

\* The bytes the subprocess writes to stdout for one request.
ToolOutput(request) ==
    LET args == BatchArgs(request)
        out == IF \E i \in 1..Len(args) : args[i] = "-j" THEN JsonOutput(args)
               ELSE IF args = <<"-ver">> THEN <<"9", "\n">>
               ELSE IF Len(args) = 2 /\ args[1] = "-echo" THEN EchoBytes(args[2]) \o <<"\n">>
               ELSE <<>>
    IN  out \o sentinel \o <<"\n">>

\* json.loads(text): an array of objects, whitespace ignored; anything else
\* raises JSONDecodeError (ok = FALSE).
json_loads(text) ==
    LET s == SelectSeq(text, LAMBDA x : x \notin Whitespace)
        inner == SubSeq(s, 2, Len(s) - 1)
        wellformed ==
            /\ Len(s) >= 2 /\ s[1] = "[" /\ s[Len(s)] = "]"
            /\ \/ inner = <<>>
               \/ /\ Len(inner) % 2 = 1
                  /\ \A i \in 1..Len(inner) :
                        IF i % 2 = 1 THEN inner[i] \in JsonSymbols ELSE inner[i] = ","
    IN  IF wellformed
        THEN [ok |-> TRUE,
              val |-> [i \in 1..((Len(inner) + 1) \div 2) |-> JsonObject(inner[2 * i - 1])]]
        ELSE [ok |-> FALSE, val |-> <<>>]

----------------------------------------------------------------------------
(* The ExifTool class.  Its methods are operators on a context c:          *)
(*   running, proc  the attributes self.running and self._process (0 when  *)
(*                  the attribute does not exist);                         *)
(*   procs          every subprocess spawned so far, by handle;            *)
(*   wrote, warned  what the operation under way has written to a stdin    *)
(*                  pipe so far and whether it has issued a UserWarning.   *)
(* A method yields the context it leaves, the exception it raises ("none"  *)
(* when it returns), its return value, and whether it blocks for ever.     *)

NoProcess == 0

\* A subprocess as Popen leaves it: alive, its stdout pipe empty.  `asked`
\* says it has received the stay-open-disable directive, `waited` that
\* communicate() has collected it.
NewProcess == [state |-> "alive", asked |-> FALSE, waited |-> FALSE, stdout |-> <<>>,
               cut |-> 0]

Return(c, val) == [c |-> c, err |-> "none", val |-> val, blocked |-> FALSE]

Raise(c, err) == [c |-> c, err |-> err, val |-> <<>>, blocked |-> FALSE]

Blocked(c) == [c |-> c, err |-> "none", val |-> <<>>, blocked |-> TRUE]

\* subprocess.Popen([...], stdin=PIPE, stdout=PIPE, stderr=devnull)
Popen(ps) == Append(ps, NewProcess)

\* Mutant of start: the running flag is not looked at.
start_unguarded(c, launch_ok) ==
    IF ~launch_ok THEN Raise(c, "OSError")
    ELSE Return([c EXCEPT !.procs = Popen(c.procs),
                          !.proc = Len(c.procs) + 1,
                          !.running = TRUE], <<>>)

\* Mutant of start: a session started again takes up its last subprocess.
start_reuse(c, launch_ok) ==
    IF c.running THEN Return([c EXCEPT !.warned = TRUE], <<>>)
    ELSE IF ~launch_ok THEN Raise(c, "OSError")
    ELSE IF c.procs # <<>>
    THEN Return([c EXCEPT !.proc = Len(c.procs), !.running = TRUE], <<>>)
    ELSE Return([c EXCEPT !.procs = Popen(c.procs),
                          !.proc = Len(c.procs) + 1,
                          !.running = TRUE], <<>>)

\* Mutant of start: a launch that fails is passed over in silence.
start_swallow(c, launch_ok) ==
    IF c.running THEN Return([c EXCEPT !.warned = TRUE], <<>>)
    ELSE IF ~launch_ok THEN Return(c, <<>>)
    ELSE Return([c EXCEPT !.procs = Popen(c.procs),
                          !.proc = Len(c.procs) + 1,
                          !.running = TRUE], <<>>)

\* ExifTool.start; launch_ok is whether the operating system can launch
\* the executable.
start(c, launch_ok) ==
    IF c.running THEN Return([c EXCEPT !.warned = TRUE], <<>>)
    ELSE IF ~launch_ok THEN Raise(c, "OSError")
    ELSE Return([c EXCEPT !.procs = Popen(c.procs),
                          !.proc = Len(c.procs) + 1,
                          !.running = TRUE], <<>>)

\* stdin.write(data); stdin.flush(): the bytes reach a live subprocess, and
\* raise BrokenPipeError when it has exited.
PipeOpen(c) == c.procs[c.proc].state = "alive"

\* Mutant of communicate: the subprocess is not waited for.
communicate_nowait(p) == [p EXCEPT !.asked = TRUE]

\* communicate(): the subprocess, told to leave stay-open mode, exits; its
\* output is drained and it is waited for.
communicate(p) == [p EXCEPT !.state = "exited", !.asked = TRUE, !.waited = TRUE,
                            !.stdout = <<>>]

\* Mutant of terminate: self.running is left set.
terminate_still_running(c) ==
    IF ~c.running THEN Return(c, <<>>)
    ELSE IF ~PipeOpen(c) THEN Raise(c, "BrokenPipeError")
    ELSE Return([c EXCEPT !.wrote = Append(@, StayOpenFalse),
                          !.procs[c.proc] = communicate(@),
                          !.proc = NoProcess], <<>>)

\* ExifTool.terminate
terminate(c) ==
    IF ~c.running THEN Return(c, <<>>)
    ELSE IF ~PipeOpen(c) THEN Raise(c, "BrokenPipeError")
    ELSE Return([c EXCEPT !.wrote = Append(@, StayOpenFalse),
                          !.procs[c.proc] = communicate(@),
                          !.proc = NoProcess,
                          !.running = FALSE], <<>>)

\* Mutant of execute_return: a read that finds nothing more gives up.
execute_return_timeout(c, r) ==
    IF r.blocked THEN Raise([c EXCEPT !.procs[c.proc].stdout = r.pipe], "TimeoutError")
    ELSE Return([c EXCEPT !.procs[c.proc].stdout = r.pipe], StripSentinel(r.output))

\* The end of execute: the unread bytes stay in the pipe and the accumulator
\* is returned without the sentinel, or the read never returns.
execute_return(c, r) ==
    IF r.blocked THEN Blocked([c EXCEPT !.procs[c.proc].stdout = r.pipe])
    ELSE Return([c EXCEPT !.procs[c.proc].stdout = r.pipe], StripSentinel(r.output))

\* What a subprocess writes of a response when it exits `missing` bytes
\* short of its end.
Written(response, missing) == SubSeq(response, 1, Len(response) - missing)

\* The subprocess after a batch: it serves on, or it has exited `missing`
\* bytes short of the end of its response.
answered(p, missing) ==
    IF missing = 0 THEN p ELSE [p EXCEPT !.state = "exited", !.cut = missing]

\* Mutant of send: the request is written but not flushed.
send_unflushed(p, request) == p

\* stdin.write(request); stdin.flush(): the subprocess takes the batches in
\* the order they are written and writes the response to each to stdout.
send(p, request) == [p EXCEPT !.stdout = @ \o ToolOutput(request)]

\* The request is written and flushed, the subprocess answers it, and the
\* answer is read up to the sentinel.
read_response(c, request, avail) ==
    execute_return([c EXCEPT !.wrote = Append(@, request),
                             !.procs[c.proc] = answered(@, avail.missing)],
                   ReadLoop(<<>>,
                            c.procs[c.proc].stdout
                               \o Written(ToolOutput(request), avail.missing),
                            avail.ready))

\* Mutant of execute: a session that is not running is started.
execute_autostart(c, params, avail) ==
    IF Request(params) = <<"TypeError">> THEN Raise(c, "TypeError")
    ELSE IF ~c.running THEN read_response(start(c, TRUE).c, Request(params), avail)
    ELSE IF ~PipeOpen(c) THEN Raise(c, "BrokenPipeError")
    ELSE read_response(c, Request(params), avail)

\* ExifTool.execute; avail is how the response arrives: how many bytes the
\* successive reads find (see ReadLoop) and how many the subprocess fails to
\* write.
execute(c, params, avail) ==
    IF ~c.running THEN Raise(c, "ValueError")
    ELSE IF Request(params) = <<"TypeError">> THEN Raise(c, "TypeError")
    ELSE IF ~PipeOpen(c) THEN Raise(c, "BrokenPipeError")
    ELSE read_response(c, Request(params), avail)

\* json.loads(output.decode("utf-8")) of what execute returned, r.
loads_result(r) ==
    IF r.err # "none" \/ r.blocked THEN r
    ELSE LET decoded == json_loads(r.val)
         IN  IF ~decoded.ok THEN Raise(r.c, "JSONDecodeError")
             ELSE Return(r.c, decoded.val)

\* ExifTool.execute_json
execute_json(c, params, avail) ==
    loads_result(execute(c, <<Bt("-j")>> \o [i \in 1..Len(params) |-> fsencode(params[i])],
                         avail))

\* ExifTool.__enter__
__enter__(c, launch_ok) == start(c, launch_ok)

\* Mutant of __exit__: the session is left as the block found it.
__exit__keep(c) == Return(c, <<>>)

\* ExifTool.__exit__: it returns None, so an exception of the block goes on.
__exit__(c) == terminate(c)

\* ExifTool.__del__
__del__(c) == terminate(c)

\* FileMetadata(values, exif_tool): a dict holding the record.
FileMetadata(values) == [kind |-> "FileMetadata", values |-> values]

\* MultiFileMetadata(file_paths, exif_tool)
MultiFileMetadata(file_paths) == [kind |-> "MultiFileMetadata", file_paths |-> file_paths]

\* FileMetadata(next(x for x in records)) of what execute_json returned, r.
first_record(r) ==
    IF r.err # "none" \/ r.blocked THEN r
    ELSE IF r.val = <<>> THEN Raise(r.c, "StopIteration")
    ELSE Return(r.c, FileMetadata(r.val[1]))

\* Mutant of metadata: any single path is queried at once.
metadata_eager(c, file_paths, avail) ==
    IF Len(file_paths) = 1
    THEN first_record(execute_json(c, <<St(file_paths[1])>>, avail))
    ELSE Return(c, MultiFileMetadata(file_paths))

\* ExifTool.metadata
metadata(c, file_paths, avail) ==
    IF Len(file_paths) = 1 /\ isfile(file_paths[1])
    THEN first_record(execute_json(c, <<St(file_paths[1])>>, avail))
    ELSE Return(c, MultiFileMetadata(file_paths))

----------------------------------------------------------------------------
(* MultiFileMetadata *)

\* The with statement is left with the block's outcome r and the outcome x
\* of __exit__: an exception of __exit__ replaces the block's.
with_result(r, x) ==
    IF x.err # "none" THEN x ELSE [r EXCEPT !.c = x.c]

\* Mutant of with_exit: the block is left without __exit__.
with_exit_leak(r) == r

\* The block `return et.execute_json(*params)` has ended with r: unless it
\* blocks for ever, __exit__ runs.
with_exit(r) ==
    IF r.blocked THEN r ELSE with_result(r, __exit__(r.c))

\* What may become of the executable a session launches: the launch fails,
\* the subprocess serves the session, or it exits on its own as soon as it
\* is launched (it crashes, it is not exiftool).
Launches == {"fails", "serves", "exits"}

\* The subprocess of the session has exited on its own.
exited(c) == [c EXCEPT !.procs[c.proc].state = "exited"]

\* `with self.exif_tool as et:` after __enter__ has ended with e.
with_block(e, params, launch, avail) ==
    IF e.err # "none" THEN e
    ELSE with_exit(execute_json(IF launch = "exits" THEN exited(e.c) ELSE e.c,
                                params, avail))

\* MultiFileMetadata._execute: the running session is used as it is; one
\* that is not running is entered for the one call and left again.
_execute(c, params, launch, avail) ==
    IF c.running THEN execute_json(c, params, avail)
    ELSE with_block(__enter__(c, launch # "fails"), params, launch, avail)

\* yield FileMetadata(exif_values, self.exif_tool) for each record
yield_views(r) ==
    IF r.err # "none" \/ r.blocked THEN r
    ELSE [r EXCEPT !.val = [i \in 1..Len(r.val) |-> FileMetadata(r.val[i])]]

\* The generator is advanced `taken` times and then abandoned: the consumer
\* has the elements yielded so far.
take(r, taken) ==
    IF r.err # "none" \/ r.blocked THEN r
    ELSE [r EXCEPT !.val = SubSeq(@, 1, Min(taken, Len(@)))]

\* list(iter(view)): MultiFileMetadata.__iter__ run to its end.
mfm_iter(c, file_paths, launch, avail) ==
    yield_views(_execute(c, <<St("-r")>> \o [i \in 1..Len(file_paths) |-> St(file_paths[i])],
                         launch, avail))

----------------------------------------------------------------------------
(* The module-level metadata() *)

\* ExifTool(): a new instance, not running and without a handle; ps are the
\* subprocesses spawned so far.
ExifTool(ps) == [running |-> FALSE, proc |-> NoProcess, procs |-> ps,
                 wrote |-> <<>>, warned |-> FALSE]

\* `with ExifTool() as et: return et.metadata(*file_paths)` after __enter__
\* has ended with e.
module_block(e, file_paths, launch, avail) ==
    IF e.err # "none" THEN e
    ELSE with_exit(metadata(IF launch = "exits" THEN exited(e.c) ELSE e.c,
                            file_paths, avail))

\* The module-level metadata(*file_paths).
module_metadata(ps, file_paths, launch, avail) ==
    module_block(__enter__(ExifTool(ps), launch # "fails"), file_paths, launch, avail)

----------------------------------------------------------------------------
(* MultiFileMetadata, continued *)

\* dict.get(key, None)
get(d, key) == IF key \in DOMAIN d THEN d[key] ELSE "None"

\* yield exif_values.get(key, None) for each record
yield_values(r, key) ==
    IF r.err # "none" \/ r.blocked THEN r
    ELSE [r EXCEPT !.val = [i \in 1..Len(r.val) |-> get(r.val[i], key)]]

\* list(view[key]): MultiFileMetadata.__getitem__ run to its end.
mfm_getitem(c, file_paths, key, launch, avail) ==
    yield_values(_execute(c, <<St("-" \o key), St("-r")>>
                             \o [i \in 1..Len(file_paths) |-> St(file_paths[i])],
                          launch, avail), key)

\* A bare `raise` with no exception being handled.
BareRaise == "RuntimeError"

\* MultiFileMetadata.__setitem__, __delitem__ and write: the view is left
\* as it is.
mfm_setitem(self, key, value) == [view |-> self, err |-> BareRaise]

mfm_delitem(self, key) == [view |-> self, err |-> BareRaise]

mfm_write(self) == [view |-> self, err |-> BareRaise]

----------------------------------------------------------------------------
(* FileMetadata(dict) *)

\* dict.__setitem__
dict_setitem(d, key, value) == [k \in DOMAIN d \cup {key} |-> IF k = key THEN value ELSE d[k]]

\* dict.__delitem__ of a key the dict holds
dict_delitem(d, key) == [k \in DOMAIN d \ {key} |-> d[k]]

\* FileMetadata.__setitem__: the dict is updated, then the bare raise.
fm_setitem(d, key, value) == [values |-> dict_setitem(d, key, value), err |-> BareRaise]

\* FileMetadata.__delitem__: KeyError from the dict for an absent key, else
\* the key is removed, then the bare raise.
fm_delitem(d, key) ==
    IF key \notin DOMAIN d THEN [values |-> d, err |-> "KeyError"]
    ELSE [values |-> dict_delitem(d, key), err |-> BareRaise]

\* FileMetadata.write
fm_write(d) == [values |-> d, err |-> BareRaise]

\* FileMetadata.__getitem__: `return self._values[key]`.  __init__ stores the
\* record in the dict itself and sets no attribute _values, so the attribute
\* lookup raises before the key is looked at.
fm_getitem(d, key) == [values |-> d, err |-> "AttributeError", val |-> <<>>]

----------------------------------------------------------------------------
(* The state machine: one ExifTool instance, the subprocesses it has       *)
(* spawned, the view its caller holds, and the outcome of the last call.   *)
(* Spec takes each method call as one step; SpecModule is a caller of the  *)
(* module-level metadata() alone; SpecThreads takes execute statement by   *)
(* statement in two threads.                                               *)

NoView == [kind |-> "none"]

\* The threads of the caller that may call execute on the session.
Threads == {1, 2}

\* A thread that has not called execute: pc is its place in execute, params
\* the batch it passes, output the accumulator of its read loop, err and val
\* how its call ends; overlapped says another call was under way during its
\* own.
IdleThread == [pc |-> "idle", params |-> <<>>, output |-> <<>>,
               err |-> "none", val |-> <<>>, overlapped |-> FALSE]

\* The context the methods work on, built from the state.
Ctx == [running |-> running, proc |-> _process, procs |-> procs,
        wrote |-> <<>>, warned |-> FALSE]

\* The unread bytes in the stdout pipe of the session's subprocess.
Unread == IF _process = NoProcess THEN <<>> ELSE procs[_process].stdout

\* What a call found when it began.
Pre == [running |-> running, proc |-> _process, nprocs |-> Len(procs),
        alive |-> _process # NoProcess /\ procs[_process].state = "alive",
        unread |-> Unread, view |-> view, depth |-> depth]

Init ==
    /\ running = FALSE
    /\ _process = NoProcess
    /\ procs = <<>>
    /\ depth = 0
    /\ view = NoView
    /\ pc = "ready"
    /\ threads = [t \in Threads |-> IdleThread]
    /\ ret = [op |-> "__init__", args |-> <<>>, err |-> "none", val |-> <<>>,
              wrote |-> <<>>, warned |-> FALSE, pre |-> Pre]

\* The session after a method with outcome r, and the record of the call.
\* A call that blocks never returns: nothing is called after it.
Commit(op, args, r) ==
    /\ running' = r.c.running
    /\ _process' = r.c.proc
    /\ procs' = r.c.procs
    /\ pc' = IF r.blocked THEN "blocked" ELSE pc
    /\ ret' = [op |-> op, args |-> args, err |-> r.err, val |-> r.val,
               wrote |-> r.c.wrote, warned |-> r.c.warned, pre |-> Pre]
    /\ UNCHANGED threads

\* How a response may arrive: all at once, or a first read finding only
\* `ready` bytes and the next one the rest.  The loop stops at the first
\* read that ends where the sentinel is seen, so whatever it returns under a
\* division into more reads it also returns under one of these.
Readies == {<<>>} \cup {<<n>> : n \in 1..MaxReady}

\* The subprocess writes its whole response, which arrives in one of these
\* ways, or it exits up to MaxMissing bytes short of the end of the response;
\* what it wrote is then found by one read.
Arrivals ==
    {[ready |-> a, missing |-> 0] : a \in Readies}
       \cup {[ready |-> <<>>, missing |-> m] : m \in 1..MaxMissing}

\* A call that may spawn a subprocess is taken only below the bound.
MaySpawn == running \/ Len(procs) < MaxProcs

\* A call that may send a batch is taken only below the bound.
MaySend == Len(Unread) <= MaxPending

RawBatches ==
    {<<>>, <<St("-ver")>>, <<Bt("-echo"), Bt(" x ")>>, <<Bt("-echo"), Bt("{ready}")>>}

JsonBatches == {<<St("a.jpg")>>, <<Bt("a.jpg")>>, <<St("*.gif")>>}

PathLists == {<<>>, <<"a.jpg">>, <<"pics">>, <<"*.gif">>, <<"b.png", "a.jpg">>}

Start ==
    /\ pc = "ready" /\ MaySpawn
    /\ \E launch_ok \in BOOLEAN : Commit("start", <<launch_ok>>, start(Ctx, launch_ok))
    /\ UNCHANGED <<depth, view>>

Terminate ==
    /\ pc = "ready"
    /\ Commit("terminate", <<>>, terminate(Ctx))
    /\ UNCHANGED <<depth, view>>

Execute ==
    /\ pc = "ready" /\ MaySend
    /\ \E params \in RawBatches :
          \E r \in {execute(Ctx, params, avail) : avail \in Arrivals} :
             Commit("execute", params, r)
    /\ UNCHANGED <<depth, view>>

ExecuteJson ==
    /\ pc = "ready" /\ MaySend
    /\ \E params \in JsonBatches :
          \E r \in {execute_json(Ctx, params, avail) : avail \in Arrivals} :
             Commit("execute_json", params, r)
    /\ UNCHANGED <<depth, view>>

\* view = session.metadata(*file_paths): the caller keeps the view returned.
Metadata ==
    /\ pc = "ready" /\ MaySend
    /\ \E file_paths \in PathLists :
          \E r \in {metadata(Ctx, file_paths, avail) : avail \in Arrivals} :
             /\ Commit("metadata", file_paths, r)
             /\ view' = IF r.err = "none" /\ ~r.blocked THEN r.val ELSE view
    /\ UNCHANGED depth

\* `with session:` is entered; the block is not run when __enter__ raises.
Enter ==
    /\ pc = "ready" /\ MaySpawn /\ depth < MaxDepth
    /\ \E launch_ok \in BOOLEAN :
          LET r == __enter__(Ctx, launch_ok)
          IN  /\ Commit("__enter__", <<launch_ok>>, r)
              /\ depth' = IF r.err = "none" THEN depth + 1 ELSE depth
    /\ UNCHANGED view

\* The innermost `with session:` block is left, by its end or by an error
\* raised in it.
Exit ==
    /\ pc = "ready" /\ depth > 0
    /\ \E by_error \in BOOLEAN : Commit("__exit__", <<by_error>>, __exit__(Ctx))
    /\ depth' = depth - 1
    /\ UNCHANGED view

\* The instance is garbage collected: no block is open on it and no view
\* refers to it.  An exception of __del__ is reported and dropped; nothing
\* is called on the instance afterwards.
Del ==
    /\ pc = "ready" /\ depth = 0 /\ view.kind # "MultiFileMetadata"
    /\ LET r == __del__(Ctx)
       IN  /\ running' = r.c.running
           /\ _process' = r.c.proc
           /\ procs' = r.c.procs
           /\ ret' = [op |-> "__del__", args |-> <<>>, err |-> r.err, val |-> <<>>,
                      wrote |-> r.c.wrote, warned |-> FALSE, pre |-> Pre]
    /\ pc' = "collected"
    /\ UNCHANGED <<depth, view, threads>>

\* The subprocess exits on its own (it crashes or is killed).
ProcessExits ==
    /\ pc = "ready" /\ running /\ procs[_process].state = "alive"
    /\ procs' = [procs EXCEPT ![_process].state = "exited"]
    /\ ret' = [op |-> "exit", args |-> <<>>, err |-> "none", val |-> <<>>,
               wrote |-> <<>>, warned |-> FALSE, pre |-> Pre]
    /\ UNCHANGED <<running, _process, depth, view, pc, threads>>

\* for record in view: ..., left after `taken` elements at the latest
MfmIter ==
    /\ pc = "ready" /\ MaySpawn /\ MaySend /\ view.kind = "MultiFileMetadata"
    /\ \E launch \in Launches :
          \E r \in {mfm_iter(Ctx, view.file_paths, launch, avail) : avail \in Arrivals} :
             \E v \in {take(r, taken) : taken \in 1..MaxTaken} :
                Commit("__iter__", <<launch>>, v)
    /\ UNCHANGED <<depth, view>>

\* for value in view[key]: ..., left after `taken` elements at the latest
MfmGetitem ==
    /\ pc = "ready" /\ MaySpawn /\ MaySend /\ view.kind = "MultiFileMetadata"
    /\ \E key \in Tags, launch \in Launches :
          \E r \in {mfm_getitem(Ctx, view.file_paths, key, launch, avail) :
                       avail \in Arrivals} :
             \E v \in {take(r, taken) : taken \in 1..MaxTaken} :
                Commit("__getitem__", <<key, launch>>, v)
    /\ UNCHANGED <<depth, view>>

\* The record of a call on a view: the session is not involved.
ViewCall(op, args, err) ==
    /\ ret' = [op |-> op, args |-> args, err |-> err, val |-> <<>>,
               wrote |-> <<>>, warned |-> FALSE, pre |-> Pre]
    /\ UNCHANGED <<running, _process, procs, depth, pc, threads>>

\* view[key] = value, del view[key], view.write() on a MultiFileMetadata
MfmMutate ==
    /\ pc = "ready" /\ view.kind = "MultiFileMetadata"
    /\ \/ \E key \in Tags :
             LET r == mfm_setitem(view, key, "v")
             IN  view' = r.view /\ ViewCall("__setitem__", <<key, "v">>, r.err)
       \/ \E key \in Tags :
             LET r == mfm_delitem(view, key)
             IN  view' = r.view /\ ViewCall("__delitem__", <<key>>, r.err)
       \/ LET r == mfm_write(view)
          IN  view' = r.view /\ ViewCall("write", <<>>, r.err)

\* view[key] = value, del view[key], view.write() on a FileMetadata
FmMutate ==
    /\ pc = "ready" /\ view.kind = "FileMetadata"
    /\ \/ \E key \in Tags :
             LET r == fm_setitem(view.values, key, "v")
             IN  view' = FileMetadata(r.values) /\ ViewCall("__setitem__", <<key, "v">>, r.err)
       \/ \E key \in Tags :
             LET r == fm_delitem(view.values, key)
             IN  view' = FileMetadata(r.values) /\ ViewCall("__delitem__", <<key>>, r.err)
       \/ LET r == fm_write(view.values)
          IN  view' = FileMetadata(r.values) /\ ViewCall("write", <<>>, r.err)

\* view[key] on a FileMetadata
FmGetitem ==
    /\ pc = "ready" /\ view.kind = "FileMetadata"
    /\ \E key \in {"SourceFile"} \cup Tags :
          LET r == fm_getitem(view.values, key)
          IN  /\ view' = FileMetadata(r.values)
              /\ ret' = [op |-> "FileMetadata.__getitem__", args |-> <<key>>,
                         err |-> r.err, val |-> r.val,
                         wrote |-> <<>>, warned |-> FALSE, pre |-> Pre]
    /\ UNCHANGED <<running, _process, procs, depth, pc, threads>>

\* view = exiftool.metadata(*file_paths), the module-level function.  The
\* session it creates is the one a MultiFileMetadata it returns is bound to;
\* the session of the view the caller held before is collected (see Del)
\* when the new view takes its place.  When the call raises the caller keeps
\* the view and the session there were; `made` is the session created, as
\* the call leaves it.
ModuleMetadata ==
    /\ pc = "ready" /\ Len(procs) < MaxProcs
    /\ \E file_paths \in PathLists, launch \in Launches :
          \E r \in {module_metadata(__del__(Ctx).c.procs, file_paths, launch, avail) :
                       avail \in Arrivals} :
             LET ok == r.err = "none" /\ ~r.blocked
             IN  /\ running' = IF ok THEN r.c.running ELSE running
                 /\ _process' = IF ok THEN r.c.proc ELSE _process
                 /\ procs' = IF ok THEN r.c.procs
                              ELSE procs \o SubSeq(r.c.procs, Len(procs) + 1, Len(r.c.procs))
                 /\ view' = IF ok THEN r.val ELSE view
                 /\ pc' = IF r.blocked THEN "blocked" ELSE pc
                 /\ ret' = [op |-> "metadata()", args |-> file_paths, err |-> r.err,
                            val |-> r.val, wrote |-> r.c.wrote, warned |-> r.c.warned,
                            pre |-> Pre,
                            made |-> [running |-> r.c.running, proc |-> r.c.proc]]
    /\ UNCHANGED <<depth, threads>>

Next ==
    \/ Start
    \/ Terminate
    \/ Execute
    \/ ExecuteJson
    \/ Metadata
    \/ Enter
    \/ Exit
    \/ Del
    \/ ProcessExits
    \/ MfmIter
    \/ MfmGetitem
    \/ MfmMutate
    \/ FmMutate
    \/ FmGetitem

Spec == Init /\ [][Next]_vars

----------------------------------------------------------------------------
(* execute called by several threads on the one session, statement by      *)
(* statement: the test of running with the write and flush of the request, *)
(* each os.read of the loop, and the return.  Each thread calls once.      *)

ThreadBatches == {<<Bt("-ver")>>, <<Bt("-echo"), Bt("x")>>}

\* The thread table when thread t has sent its request: its call overlaps
\* every call that is reading.
calling(ts, t, params) ==
    [u \in Threads |->
        IF u = t
        THEN [IdleThread EXCEPT !.pc = "reading", !.params = params,
                                !.overlapped = \E v \in Threads \ {t} : ts[v].pc = "reading"]
        ELSE IF ts[u].pc = "reading" THEN [ts[u] EXCEPT !.overlapped = TRUE]
        ELSE ts[u]]

\* Thread t calls execute: `if not self.running: raise ValueError`, else the
\* request is written and flushed.  Nothing makes the thread wait for a call
\* under way.
ThreadCall(t) ==
    /\ pc = "ready" /\ threads[t].pc = "idle"
    /\ \E params \in ThreadBatches :
          IF ~running
          THEN /\ threads' = [threads EXCEPT ![t].pc = "done", ![t].params = params,
                                              ![t].err = "ValueError"]
               /\ UNCHANGED procs
          ELSE IF ~PipeOpen(Ctx)
          THEN /\ threads' = [threads EXCEPT ![t].pc = "done", ![t].params = params,
                                              ![t].err = "BrokenPipeError"]
               /\ UNCHANGED procs
          ELSE /\ procs' = [procs EXCEPT ![_process] = send(@, Request(params))]
               /\ threads' = calling(threads, t, params)
    /\ UNCHANGED <<running, _process, depth, view, pc, ret>>

\* How many bytes a read may find: the subprocess writes its output line by
\* line, so some whole number of the lines in the pipe.
LinesReady(pipe) == {n \in 1..Len(pipe) : n = Len(pipe) \/ pipe[n] = "\n"}

\* Thread t has found no sentinel at the end of its accumulator and reads:
\* os.read returns once the pipe holds bytes, with some or all of them.
ThreadRead(t) ==
    /\ threads[t].pc = "reading"
    /\ ~SentinelSeen(threads[t].output)
    /\ Unread # <<>>
    /\ \E n \in {os_read(Unread, ready) : ready \in LinesReady(Unread)} :
          /\ threads' = [threads EXCEPT ![t].output = @ \o SubSeq(Unread, 1, n)]
          /\ procs' = [procs EXCEPT ![_process].stdout = SubSeq(Unread, n + 1, Len(Unread))]
    /\ UNCHANGED <<running, _process, depth, view, pc, ret>>

\* Thread t has found the sentinel at the end of its accumulator and returns.
ThreadReturn(t) ==
    /\ threads[t].pc = "reading"
    /\ SentinelSeen(threads[t].output)
    /\ threads' = [threads EXCEPT ![t].pc = "done",
                                   ![t].val = StripSentinel(threads[t].output)]
    /\ UNCHANGED <<running, _process, procs, depth, view, pc, ret>>

NextThreads ==
    \/ Start
    \/ \E t \in Threads : ThreadCall(t)
    \/ \E t \in Threads : ThreadRead(t)
    \/ \E t \in Threads : ThreadReturn(t)

SpecThreads == Init /\ [][NextThreads]_vars

\* A program that uses the module-level metadata() only, and the views it
\* returns.
NextModule ==
    \/ ModuleMetadata
    \/ MfmIter
    \/ MfmGetitem
    \/ MfmMutate
    \/ FmMutate
    \/ FmGetitem

SpecModule == Init /\ [][NextModule]_vars

----------------------------------------------------------------------------
(* Properties.  A state of a behaviour is the state between two calls;    *)
(* ret describes the call that led to it and ret.pre what that call found. *)

\* The last call has returned or raised (it does not block for ever).
Ended == pc # "blocked"

AllWhitespace(b) == \A i \in 1..Len(b) : b[i] \in Whitespace

\* sub occurs in b
Contains(b, sub) ==
    \E i \in 1..(Len(b) - Len(sub) + 1) : SubSeq(b, i, i + Len(sub) - 1) = sub

\* The bytes the subprocess writes before the sentinel in answer to params.
WrittenBeforeSentinel(params) ==
    DropLast(ToolOutput(Request(params)), Len(sentinel) + 1)

\* An execute call that sent a batch and returned, with nothing but
\* whitespace of earlier responses unread and no sentinel inside the output.
PlainExecute ==
    /\ ret.op = "execute" /\ ret.err = "none" /\ Ended
    /\ AllWhitespace(ret.pre.unread)
    /\ ~Contains(WrittenBeforeSentinel(ret.args), sentinel)

\* C1 as stated: execute returns the bytes written before the sentinel with
\* all whitespace around the payload removed, the whitespace between the
\* payload and the sentinel included.
C1_AllWhitespaceRemoved ==
    PlainExecute => ret.val = strip(WrittenBeforeSentinel(ret.args))

\* C1, amended: execute returns the bytes written before the sentinel with
\* the leading whitespace removed and nothing else: the whitespace between
\* the payload and the sentinel is kept, the sentinel and the newline after it
\* are not returned.
C1_LeadingWhitespaceRemoved ==
    PlainExecute => ret.val = lstrip(WrittenBeforeSentinel(ret.args))

\* `-echo " x "` answered by ` x \n{ready}\n` has returned `x \n`.
C1_Witness ==
    /\ PlainExecute
    /\ ret.args = <<Bt("-echo"), Bt(" x ")>>
    /\ ret.val = <<"x", " ", "\n">>

\* C2: execute and execute_json on a session that is not running (never
\* started, or terminated) raise ValueError and do nothing else: nothing is
\* written to a pipe, no subprocess is spawned, no handle is taken and
\* running stays false.
C2_NotRunningRaises ==
    (ret.op \in {"execute", "execute_json"} /\ ~ret.pre.running) =>
        /\ ret.err = "ValueError"
        /\ Ended
        /\ ret.wrote = <<>>
        /\ Len(procs) = ret.pre.nprocs
        /\ _process = ret.pre.proc
        /\ ~running

\* execute_json has raised ValueError on a session that was terminated.
C2_Witness ==
    /\ ret.op = "execute_json" /\ ~ret.pre.running /\ ret.pre.nprocs > 0
    /\ ret.err = "ValueError"

\* C3: when a `with session:` block has been left, by its end or by an
\* error, the session is not running and the subprocess it held has been
\* sent the stay-open-disable directive and waited for.
C3_ScopedRelease ==
    (ret.op = "__exit__" /\ Ended) =>
        /\ ~running
        /\ ret.pre.proc # NoProcess =>
              procs[ret.pre.proc].asked /\ procs[ret.pre.proc].waited

\* C4: terminate (called directly or by __del__) on a session whose
\* subprocess has exited on its own does not raise and leaves the session
\* not running, with the handle released.
C4_TerminateAfterExit ==
    (ret.op \in {"terminate", "__del__"} /\ ret.pre.running /\ ~ret.pre.alive) =>
        /\ ret.err = "none"
        /\ ~running
        /\ _process = NoProcess

\* C5: between calls, running holds exactly when the session holds a process
\* handle whose subprocess has not been sent the stay-open-disable directive.
C5_RunningIffHandle ==
    running <=> (_process # NoProcess /\ ~procs[_process].asked)

\* terminate has released the handle of a subprocess it sent the directive.
C5_Witness ==
    /\ ret.op = "terminate" /\ ret.pre.running
    /\ ~running /\ _process = NoProcess
    /\ procs[ret.pre.proc].asked

\* C6: start on a running session warns and changes nothing: no subprocess
\* is spawned, nothing is written to a pipe, running stays true and the
\* handle stays the same.
C6_StartIdempotent ==
    [][(ret'.op = "start" /\ running) =>
          /\ ret'.warned /\ ret'.err = "none" /\ ret'.wrote = <<>>
          /\ running' /\ _process' = _process /\ procs' = procs
          /\ UNCHANGED <<depth, view, pc>>]_vars

\* start has been called on a running session.
C6_Witness ==
    /\ ret.op = "start" /\ ret.pre.running
    /\ ret.warned /\ running /\ _process = ret.pre.proc

\* C7: terminate on a session that is not running (the second of two calls
\* in a row) returns without writing or touching a handle, and running stays
\* false; terminate on a running session whose subprocess is alive returns
\* with running false; a start after that which launches leaves running true
\* with a handle to a new live subprocess, distinct from every earlier one,
\* and execute on it is not refused.
C7_TerminateTwiceThenStart ==
    /\ (ret.op = "terminate" /\ ~ret.pre.running) =>
          /\ ret.err = "none" /\ ret.wrote = <<>>
          /\ ~running /\ _process = ret.pre.proc /\ Len(procs) = ret.pre.nprocs
    /\ (ret.op = "terminate" /\ ret.pre.running /\ ret.pre.alive) =>
          ret.err = "none" /\ ~running
    /\ (ret.op = "start" /\ ~ret.pre.running /\ ret.err = "none") =>
          /\ running
          /\ _process > ret.pre.nprocs /\ _process = Len(procs)
          /\ procs[_process] = NewProcess
    /\ (ret.op = "execute" /\ ret.pre.running) => ret.err # "ValueError"

\* A session terminated once has been started again.
C7_Witness ==
    /\ ret.op = "start" /\ ~ret.pre.running /\ ret.pre.nprocs >= 1
    /\ running /\ _process = 2 /\ procs[1].waited

\* C8: every subprocess that is alive, and every one that has not been
\* waited for, is the one the running session holds the handle of; so at
\* most one subprocess is alive at any time.
C8_OneSubprocess ==
    \A i \in 1..Len(procs) :
        (procs[i].state = "alive" \/ ~procs[i].waited) => (running /\ _process = i)

\* A second subprocess is alive after the first has been waited for.
C8_Witness ==
    /\ Len(procs) = 2
    /\ procs[1].state = "exited" /\ procs[1].waited
    /\ procs[2].state = "alive" /\ running /\ _process = 2

\* C9: set field, delete field and write on either view fail with the
\* error of the bare raise and leave the view as it was.
C9_MutationRejected ==
    (ret.op \in {"__setitem__", "__delitem__", "write"}) =>
        /\ ret.err = BareRaise
        /\ view = ret.pre.view

\* C10: metadata() with anything but one path naming a regular file returns
\* a MultiFileMetadata of the paths without raising, writing to a pipe,
\* warning, or starting or stopping a subprocess, running or not; with one
\* regular file it sends exactly the one JSON batch for it when running and
\* returns the FileMetadata of the first record, and raises ValueError when
\* not running; iterating or projecting a view sends the batch.
C10_MetadataDeferred ==
    LET single == Len(ret.args) = 1 /\ isfile(ret.args[1])
    IN  /\ (ret.op = "metadata" /\ ~single) =>
              /\ ret.err = "none" /\ Ended
              /\ view = MultiFileMetadata(ret.args)
              /\ ret.wrote = <<>> /\ ~ret.warned
              /\ running = ret.pre.running /\ _process = ret.pre.proc
              /\ Len(procs) = ret.pre.nprocs /\ Unread = ret.pre.unread
        /\ (ret.op = "metadata" /\ single /\ ~ret.pre.running) => ret.err = "ValueError"
        /\ (ret.op = "metadata" /\ single /\ ret.err = "none" /\ Ended) =>
              /\ ret.wrote = <<Request(<<Bt("-j"), Bt(ret.args[1])>>)>>
              /\ view.kind = "FileMetadata"
              /\ AllWhitespace(ret.pre.unread) => view.values = FileRecord(ret.args[1])
        /\ (ret.op \in {"__iter__", "__getitem__"} /\ ret.err = "none" /\ Ended) =>
              \E i \in 1..Len(ret.wrote) :
                 /\ ret.wrote[i] # StayOpenFalse
                 /\ BatchArgs(ret.wrote[i])[1] = "-j"

\* metadata() of a directory on a session that is not running has returned
\* a MultiFileMetadata.
C10_Witness ==
    /\ ret.op = "metadata" /\ ret.args = <<"pics">> /\ ~ret.pre.running
    /\ ret.err = "none" /\ view = MultiFileMetadata(<<"pics">>)

\* C11: view[key] on a FileMetadata returns the value the record holds for
\* the key; the view metadata() returns for one regular file has that file
\* as SourceFile; iterating a view of files hands out one FileMetadata per
\* file, in the order of the paths, each with its file as SourceFile, for
\* as long as the consumer goes on.
C11_FieldRead ==
    /\ (ret.op = "FileMetadata.__getitem__" /\ ret.args[1] \in DOMAIN view.values) =>
          ret.err = "none" /\ ret.val = view.values[ret.args[1]]
    /\ (ret.op = "metadata" /\ Len(ret.args) = 1 /\ isfile(ret.args[1])
           /\ ret.err = "none" /\ Ended /\ AllWhitespace(ret.pre.unread)) =>
          view.values["SourceFile"] = ret.args[1]
    /\ (ret.op = "__iter__" /\ ret.err = "none" /\ Ended
           /\ AllWhitespace(ret.pre.unread)
           /\ \A i \in 1..Len(view.file_paths) : isfile(view.file_paths[i])) =>
          /\ ret.val = [i \in 1..Len(ret.val) |->
                           FileMetadata(FileRecord(view.file_paths[i]))]
          /\ Len(ret.val) <= Len(view.file_paths)
          /\ Len(view.file_paths) > 0 => Len(ret.val) > 0

\* C12: a call on a MultiFileMetadata leaves the session as it found it,
\* whether the call returns or raises: a running session is still running
\* with the same subprocess and no other has been spawned; a session that
\* was not running is not running again, and the one subprocess spawned for
\* the call, if any, has been sent the directive and waited for.
C12_LifecyclePreserved ==
    (ret.op \in {"__iter__", "__getitem__"} /\ Ended) =>
        IF ret.pre.running
        THEN running /\ _process = ret.pre.proc /\ Len(procs) = ret.pre.nprocs
        ELSE /\ ~running
             /\ Len(procs) <= ret.pre.nprocs + 1
             /\ \A i \in (ret.pre.nprocs + 1)..Len(procs) :
                   procs[i].asked /\ procs[i].waited
\* C13: when the module-level metadata() has returned or raised, the session
\* it created is not running and every subprocess spawned during the call
\* has been sent the directive, waited for and is not alive; a later call on
\* a MultiFileMetadata it returned finds the session not running, and spawns
\* and terminates a subprocess of its own unless the launch fails.
C13_ModuleMetadataStops ==
    /\ (ret.op = "metadata()" /\ Ended) =>
          /\ ~ret.made.running
          /\ \A i \in (ret.pre.nprocs + 1)..Len(procs) :
                procs[i].state # "alive" /\ procs[i].asked /\ procs[i].waited
    /\ (ret.op \in {"__iter__", "__getitem__"} /\ Ended) =>
          /\ ~ret.pre.running /\ ~running
          /\ ret.args[Len(ret.args)] # "fails" =>
                /\ Len(procs) = ret.pre.nprocs + 1
                /\ procs[Len(procs)].state # "alive"
                /\ procs[Len(procs)].asked /\ procs[Len(procs)].waited
\* What execute returns for params when it reads the whole response in one
\* piece from an empty pipe.
ResponseAlone(params) == StripSentinel(ToolOutput(Request(params)))

\* An execute call that has sent its batch to a live subprocess.
SentBatch ==
    /\ ret.op = "execute" /\ ret.pre.running /\ ret.pre.alive
    /\ Request(ret.args) # <<"TypeError">>

\* C14: every execute that returns has written its whole request, and
\* nothing else, before it read; it returns the response to its own batch
\* whatever earlier calls did, and leaves nothing of the response unread that
\* a later call could take for its own (whitespace at most).
C14_OwnResponse ==
    (SentBatch /\ ret.err = "none" /\ Ended) =>
        /\ ret.wrote = <<Request(ret.args)>>
        /\ ret.val = ResponseAlone(ret.args)
        /\ AllWhitespace(Unread)

\* C16: execute returns when the subprocess writes the whole response, and
\* only once the sentinel has been written: while the bytes in the pipe and
\* what the subprocess writes before it stops hold no sentinel, the call
\* neither returns nor raises.
C16_ReturnsIffSentinel ==
    SentBatch =>
        LET p == procs[ret.pre.proc]
            stream == ret.pre.unread \o Written(ToolOutput(Request(ret.args)), p.cut)
        IN  /\ p.cut = 0 => (Ended /\ ret.err = "none")
            /\ ~Contains(stream, sentinel) => ~Ended
            /\ Ended => ret.err = "none"

\* execute is waiting for a response the subprocess left unfinished inside
\* the sentinel.
C16_Witness ==
    /\ SentBatch /\ ~Ended
    /\ procs[ret.pre.proc].cut = 2
    /\ procs[ret.pre.proc].state = "exited"

\* C18: whatever way a whole response found in an empty pipe is divided into
\* reads, execute returns what it returns when one read finds all of it.
C18_ChunkingIndependent ==
    (SentBatch /\ ret.err = "none" /\ Ended
       /\ ret.pre.unread = <<>> /\ procs[ret.pre.proc].cut = 0) =>
        ret.val = ResponseAlone(ret.args)
\* C17: when the launch fails in start(), called directly or by __enter__,
\* the error of the operating system is raised and the session is left as it
\* was: not running, without a handle, no subprocess spawned, nothing
\* written, and no block entered; a start() after that which launches
\* succeeds.
C17_LaunchFailure ==
    /\ (ret.op \in {"start", "__enter__"} /\ ~ret.pre.running /\ ret.args = <<FALSE>>) =>
          /\ ret.err = "OSError" /\ Ended
          /\ ~running /\ _process = NoProcess /\ ret.pre.proc = NoProcess
          /\ Len(procs) = ret.pre.nprocs
          /\ ret.wrote = <<>> /\ ~ret.warned
          /\ depth = ret.pre.depth
    /\ (ret.op \in {"start", "__enter__"} /\ ~ret.pre.running /\ ret.args = <<TRUE>>) =>
          ret.err = "none" /\ running

\* The entry of a `with session:` block has failed at the launch.
C17_Witness ==
    /\ ret.op = "__enter__" /\ ret.args = <<FALSE>>
    /\ ret.err = "OSError" /\ ~running /\ depth = 0
\* C19: when a call on a MultiFileMetadata whose session was not running
\* hands out elements (it has not raised), the subprocess spawned for it has
\* already been sent the directive and waited for, the session is not
\* running and holds no handle, and no subprocess is alive, however many of
\* the elements the consumer takes.
C19_TerminatedBeforeFirst ==
    (ret.op \in {"__iter__", "__getitem__"} /\ ~ret.pre.running
       /\ ret.err = "none" /\ Ended) =>
        /\ ~running /\ _process = NoProcess
        /\ Len(procs) = ret.pre.nprocs + 1
        /\ procs[Len(procs)].asked /\ procs[Len(procs)].waited
        /\ \A i \in 1..Len(procs) : procs[i].state # "alive"

\* An iteration over two files on a session that was not running has been
\* abandoned after the first element.
C19_Witness ==
    /\ ret.op = "__iter__" /\ ~ret.pre.running /\ ret.err = "none"
    /\ view.file_paths = <<"b.png", "a.jpg">> /\ Len(ret.val) = 1
    /\ ~running /\ procs[Len(procs)].waited
\* C20: entering a `with session:` block on a running session warns and
\* spawns nothing: the block works on the subprocess there is; leaving a
\* block on a running session whose subprocess is alive terminates the
\* session, whatever blocks are still open around it; in the rest of an
\* enclosing block execute and execute_json then raise ValueError.
C20_NestedScope ==
    /\ (ret.op = "__enter__" /\ ret.pre.running) =>
          /\ ret.err = "none" /\ ret.warned /\ ret.wrote = <<>>
          /\ running /\ _process = ret.pre.proc /\ Len(procs) = ret.pre.nprocs
          /\ depth = ret.pre.depth + 1
    /\ (ret.op = "__exit__" /\ ret.pre.running /\ ret.pre.alive) =>
          /\ ret.err = "none" /\ ~running /\ _process = NoProcess
          /\ procs[ret.pre.proc].waited
          /\ depth = ret.pre.depth - 1
    /\ (ret.op \in {"execute", "execute_json"} /\ depth >= 1 /\ ~ret.pre.running) =>
          ret.err = "ValueError" /\ ~running

\* The inner of two blocks on the one subprocess has been left: the outer
\* block is still open and the session is not running.
C20_Witness ==
    /\ ret.op = "__exit__" /\ ret.pre.depth = 2 /\ depth = 1
    /\ ret.pre.running /\ ~running
    /\ Len(procs) = 1 /\ procs[1].waited
\* Thread t waits in os.read for bytes no call under way will make the
\* subprocess write.
WaitsForEver(t) ==
    /\ threads[t].pc = "reading"
    /\ ~SentinelSeen(threads[t].output)
    /\ Unread = <<>>
    /\ \A u \in Threads \ {t} : threads[u].pc = "done"

\* Thread t has returned from execute with bytes that are not the response
\* to its batch.
WrongResponse(t) ==
    /\ threads[t].pc = "done" /\ threads[t].err = "none"
    /\ threads[t].val # ResponseAlone(threads[t].params)

\* C15: execute takes no lock.  A call returns bytes that are not exactly
\* the response to its batch, or waits for ever for a sentinel, only when
\* another call on the session was under way during it; and a thread whose
\* call has not overlapped another gets its own response.
C15_OnlyOverlapMisleads ==
    \A t \in Threads :
        (WrongResponse(t) \/ WaitsForEver(t)) => threads[t].overlapped

\* Two calls have overlapped: one thread has returned with the bytes of
\* both responses, the other waits for the sentinel the first has consumed.
C15_Witness ==
    \E t, u \in Threads :
        /\ t # u
        /\ WrongResponse(t) /\ threads[t].overlapped
        /\ WaitsForEver(u) /\ threads[u].overlapped
====
